---- MODULE Spec2Model ----
(***************************************************************************)
(* A model of packages/process/html/__main__.py: the table flattener       *)
(* (_CustomMarkdownify.convert_table), the table-row repair pass           *)
(* (_fix_markdown_tables), the HTML sanitizer (_preprocess_html) and the   *)
(* request handler (main).                                                 *)
(*                                                                         *)
(* Text is a sequence of symbols (strings).  A symbol is one character     *)
(* ("|", " ", "a") or an indivisible piece of text ("---", a reference     *)
(* marker); every operation on text is computed symbol by symbol as the    *)
(* code computes it character by character.                                *)
(***************************************************************************)
EXTENDS Integers, Sequences, FiniteSets, TLC

\* Bounds of the input families.
MaxRows == 2
MaxCells == 2

-----------------------------------------------------------------------------
(* Sequence helpers (Python's str.join, list concatenation, slices).       *)

RECURSIVE Flatten(_)
Flatten(ss) == IF ss = <<>> THEN <<>> ELSE Head(ss) \o Flatten(Tail(ss))

RECURSIVE Join(_, _)
Join(sep, ss) ==
    IF ss = <<>> THEN <<>>
    ELSE IF Len(ss) = 1 THEN ss[1]
    ELSE ss[1] \o sep \o Join(sep, Tail(ss))

Repeat(x, n) == [i \in 1..n |-> x]

Prefix(s, n) == SubSeq(s, 1, IF n < Len(s) THEN n ELSE Len(s))

Range(s) == {s[i] : i \in 1..Len(s)}

\* str.strip() / get_text(strip=True): leading and trailing whitespace removed.
IsSpace(c) == c \in {" ", "\t", "\n"}

RECURSIVE LStrip(_)
LStrip(s) == IF s # <<>> /\ IsSpace(Head(s)) THEN LStrip(Tail(s)) ELSE s

RECURSIVE RStrip(_)
RStrip(s) ==
    IF s # <<>> /\ IsSpace(s[Len(s)]) THEN RStrip(SubSeq(s, 1, Len(s) - 1)) ELSE s

Strip(s) == RStrip(LStrip(s))

-----------------------------------------------------------------------------
(* The DOM tree of a table.  A table has attributes, an optional thead and  *)
(* tbody (each <<>> or <<rows>>), and direct child rows; a row is a         *)
(* sequence of cells; a cell is th or td, has attributes and child nodes,   *)
(* each a text node or a table.  Document order is thead, tbody, direct     *)
(* rows.                                                                    *)

TextNode(s) == [kind |-> "text", text |-> s, table |-> <<>>]
TableNode(t) == [kind |-> "table", text |-> <<>>, table |-> <<t>>]
Cell(name, attrs, children) ==
    [name |-> name, attrs |-> attrs, children |-> children]
Table(attrs, thead, tbody, trs) ==
    [attrs |-> attrs, thead |-> thead, tbody |-> tbody, trs |-> trs]

\* Every row element below a table's own sections, in document order.
OwnRows(t) == Flatten(t.thead) \o Flatten(t.tbody) \o t.trs

\* cell.find_all('table'): every table below the cell, at any depth, in
\* document order (a table before the tables inside it).
RECURSIVE TablesInRows(_)
find_all_table(children) ==
    Flatten([k \in 1..Len(children) |->
        IF children[k].kind = "table"
        THEN <<children[k].table[1]>>
             \o TablesInRows(OwnRows(children[k].table[1]))
        ELSE <<>>])

\* Every table below the rows rs, in document order.
TablesInRows(rs) ==
    Flatten([i \in 1..Len(rs) |->
        Flatten([j \in 1..Len(rs[i]) |-> find_all_table(rs[i][j].children)])])

\* el.find("table") is not None
has_table(t) == TablesInRows(OwnRows(t)) # <<>>

\* The tables that are children of the cells of rows rs (one level down).
DirectTables(rs) ==
    Flatten([i \in 1..Len(rs) |->
        Flatten([j \in 1..Len(rs[i]) |->
            LET ch == rs[i][j].children
            IN  Flatten([k \in 1..Len(ch) |->
                    IF ch[k].kind = "table" THEN ch[k].table ELSE <<>>])])])

\* table_tag.find('thead') / table_tag.find('tbody'): the first such element
\* anywhere below the table, in document order: <<>> (None) or <<rows>>.
RECURSIVE find_section(_, _)
\* The first section found below the tables ts, in their order.
RECURSIVE FirstSection(_, _)
FirstSection(ts, which) ==
    IF ts = <<>> THEN <<>>
    ELSE IF find_section(Head(ts), which) # <<>>
         THEN find_section(Head(ts), which)
         ELSE FirstSection(Tail(ts), which)

\* The first of the candidates that is not None.
FirstFound(candidates) ==
    IF \A i \in 1..Len(candidates) : candidates[i] = <<>> THEN <<>>
    ELSE candidates[CHOOSE i \in 1..Len(candidates) :
                        /\ candidates[i] # <<>>
                        /\ \A j \in 1..(i - 1) : candidates[j] = <<>>]

find_section(t, which) ==
    IF which = "thead"
    THEN FirstFound(<<t.thead,
                      FirstSection(DirectTables(Flatten(t.tbody) \o t.trs),
                                   which)>>)
    ELSE FirstFound(<<FirstSection(DirectTables(Flatten(t.thead)), which),
                      t.tbody,
                      FirstSection(DirectTables(Flatten(t.tbody) \o t.trs),
                                   which)>>)

\* The body of iter_rows, given the thead and the tbody found: the rows of
\* the thead, then of the tbody, and the table's direct child rows when
\* neither was found.
rows_of(thead, tbody, trs) ==
    (IF thead # <<>> THEN thead[1] ELSE <<>>)
    \o (IF tbody # <<>> THEN tbody[1] ELSE <<>>)
    \o (IF thead = <<>> /\ tbody = <<>> THEN trs ELSE <<>>)

iter_rows(table_tag) ==
    rows_of(find_section(table_tag, "thead"), find_section(table_tag, "tbody"),
            table_tag.trs)

\* row.find_all(['th','td'], recursive=False)
cells_in_row(row) == row

-----------------------------------------------------------------------------
(* Text of cells.                                                          *)

\* s.replace('|', r'\|')
RECURSIVE escape_pipes(_)
escape_pipes(s) ==
    IF s = <<>> THEN <<>>
    ELSE (IF Head(s) = "|" THEN <<"\\", "|">> ELSE <<Head(s)>>)
         \o escape_pipes(Tail(s))

\* The strings below the nodes, in document order (tables included).
RECURSIVE StringsInRows(_)
Strings(children) ==
    Flatten([k \in 1..Len(children) |->
        IF children[k].kind = "text"
        THEN <<children[k].text>>
        ELSE StringsInRows(OwnRows(children[k].table[1]))])

StringsInRows(rs) ==
    Flatten([i \in 1..Len(rs) |->
        Flatten([j \in 1..Len(rs[i]) |-> Strings(rs[i][j].children)])])

\* The strings ss stripped, the empty ones dropped.
StrippedNonEmpty(ss) ==
    Flatten([i \in 1..Len(ss) |->
        IF Strip(ss[i]) = <<>> THEN <<>> ELSE <<Strip(ss[i])>>])

\* get_text(" ", strip=True): every string stripped, the empty ones dropped,
\* the rest joined by one space.
get_text(children) == Join(<<" ">>, StrippedNonEmpty(Strings(children)))

\* decompose() of every table of the cell's copy.
without_tables(children) ==
    Flatten([i \in 1..Len(children) |->
        IF children[i].kind = "table" THEN <<>> ELSE <<children[i]>>])

text_without_nested_keeping(cell) == get_text(cell.children)

text_without_nested(cell) == get_text(without_tables(cell.children))

\* '| ' + ' | '.join(cells) + ' |'
md_row(cells) == <<"|", " ">> \o Join(<<" ", "|", " ">>, cells) \o <<" ", "|">>

\* '| ' + ' | '.join(['---'] * n) + ' |'
md_separator(n) == md_row(Repeat(<<"---">>, n))

-----------------------------------------------------------------------------
(* _sanitize_table_html and the rendering of nested tables.                *)

AllowedAttrs == {"scope", "colspan", "rowspan"}

\* The attribute filter of _sanitize_table_html, on every table and cell of
\* the tree (the trees of this model hold no div or span wrapper to unwrap).
RECURSIVE sanitize_tree(_)
sanitize_children(children) ==
    [k \in 1..Len(children) |->
        IF children[k].kind = "table"
        THEN TableNode(sanitize_tree(children[k].table[1]))
        ELSE children[k]]

sanitize_rows(rs) ==
    [i \in 1..Len(rs) |->
        [j \in 1..Len(rs[i]) |->
            Cell(rs[i][j].name, rs[i][j].attrs \cap AllowedAttrs,
                 sanitize_children(rs[i][j].children))]]

sanitize_tree(t) ==
    Table(t.attrs \cap AllowedAttrs,
          [i \in 1..Len(t.thead) |-> sanitize_rows(t.thead[i])],
          [i \in 1..Len(t.tbody) |-> sanitize_rows(t.tbody[i])],
          sanitize_rows(t.trs))

_sanitize_table_html(t, options) ==
    IF ~options.sanitize_tables_html THEN t ELSE sanitize_tree(t)

\* What a nested table is rendered as: Markdown lines or sanitized HTML.
MdBody(lines) == [kind |-> "md", lines |-> lines, html |-> <<>>]
HtmlBody(t) == [kind |-> "html", lines |-> <<>>, html |-> <<t>>]

\* x or ' '
OrBlank(s) == IF s = <<>> THEN <<" ">> ELSE s

\* The texts of a nested table's row.
nested_cell_texts(cells) ==
    [j \in 1..Len(cells) |-> OrBlank(escape_pipes(get_text(cells[j].children)))]

\* A row's line, and the separator after the first row.
nested_lines(i, cell_texts) ==
    IF i = 1
    THEN <<md_row(cell_texts), md_separator(Len(cell_texts))>>
    ELSE <<md_row(cell_texts)>>

nested_md_lines(nested_rows) ==
    Flatten([i \in 1..Len(nested_rows) |->
        nested_lines(i, nested_cell_texts(cells_in_row(nested_rows[i])))])

\* The nested table's rows are found as iter_rows finds them.
nested_body(table_tag, nested_rows, html) ==
    IF has_table(table_tag) \/ nested_rows = <<>>
    THEN HtmlBody(html)
    ELSE MdBody(nested_md_lines(nested_rows))

\* except Exception: return self._sanitize_table_html(str(table_tag))
except_nested_empty(table_tag, options) == MdBody(<<>>)

except_nested(table_tag, options) ==
    HtmlBody(_sanitize_table_html(table_tag, options))

\* The body of the try, and the handler when the body raises.
convert_nested_table_to_markdown(table_tag, options, raises) ==
    IF raises
    THEN except_nested(table_tag, options)
    ELSE nested_body(table_tag, iter_rows(table_tag),
                     _sanitize_table_html(table_tag, options))

\* f"**Table {nested_idx}:**\n\n{nested_md.strip()}\n"
Block(nested_idx, nested_md) ==
    [idx |-> nested_idx,
     label |-> "**Table " \o ToString(nested_idx) \o ":**",
     kind |-> nested_md.kind, lines |-> nested_md.lines, html |-> nested_md.html]

\* The reference marker for the indices start_idx..last_idx.
ref_plain(start_idx, last_idx) ==
    IF start_idx = last_idx
    THEN "(See Table " \o ToString(start_idx) \o ")"
    ELSE "(See Tables " \o ToString(start_idx) \o "-" \o ToString(last_idx) \o ")"

ref(start_idx, last_idx) ==
    IF start_idx = last_idx
    THEN "[See Table " \o ToString(start_idx) \o "](#table-"
         \o ToString(start_idx) \o ")"
    ELSE "[See Tables " \o ToString(start_idx) \o "-" \o ToString(last_idx)
         \o "](#table-" \o ToString(start_idx) \o ")"

\* The loop over a cell's nested tables: one block and one index each.
nested_loop(nested_tables, nested_idx, options, raising) ==
    [i \in 1..Len(nested_tables) |->
        Block(nested_idx + i - 1,
              convert_nested_table_to_markdown(nested_tables[i], options,
                                               (nested_idx + i - 1) \in raising))]

\* The text of a cell that holds nested tables, given its own text and the
\* marker.
with_marker(base_text, marker) ==
    IF base_text # <<>>
    THEN base_text \o <<" ", "(", marker, ")">>
    ELSE <<marker>>

\* The text of a cell, given its own text, the number of its nested tables
\* and the index of the first.
cell_text(base_text, n_tables, start_idx) ==
    IF n_tables = 0 THEN base_text
    ELSE with_marker(base_text, ref(start_idx, start_idx + n_tables - 1))

\* The indices a cell consumes: one for each of its n_tables nested tables.
next_index_once(nested_idx, n_tables) ==
    IF n_tables = 0 THEN nested_idx ELSE nested_idx + 1

next_index(nested_idx, n_tables) == nested_idx + n_tables

\* One cell of a body row: its text, the blocks of its nested tables and the
\* next unused index.
convert_cell(c, nested_idx, options, raising) ==
    [text |-> cell_text(escape_pipes(text_without_nested(c)),
                        Len(find_all_table(c.children)), nested_idx),
     blocks |-> nested_loop(find_all_table(c.children), nested_idx, options,
                            raising),
     nested_idx |-> next_index(nested_idx, Len(find_all_table(c.children)))]

\* The index before each cell of a row, and after the last.
RECURSIVE index_before(_, _, _)
index_before(cells, j, nested_idx) ==
    IF j = 1 THEN nested_idx
    ELSE next_index(index_before(cells, j - 1, nested_idx),
                    Len(find_all_table(cells[j - 1].children)))

\* The loop over the cells of a body row.
convert_cells(cells, nested_idx, options, raising) ==
    [texts |-> [j \in 1..Len(cells) |->
                  convert_cell(cells[j], index_before(cells, j, nested_idx),
                               options, raising).text],
     row_blocks |-> Flatten([j \in 1..Len(cells) |->
                  convert_cell(cells[j], index_before(cells, j, nested_idx),
                               options, raising).blocks]),
     nested_idx |-> index_before(cells, Len(cells) + 1, nested_idx)]

\* Pad/truncate to header width.
pad_only(texts, width) ==
    IF Len(texts) < width
    THEN texts \o Repeat(<<>>, width - Len(texts))
    ELSE texts

pad_truncate(texts, width) ==
    IF Len(texts) < width
    THEN texts \o Repeat(<<>>, width - Len(texts))
    ELSE Prefix(texts, width)

\* Determine header: the first row's texts when it holds a th, and a
\* synthetic blank header of the first row's width otherwise.
has_th(first_cells) == \E j \in 1..Len(first_cells) : first_cells[j].name = "th"

header_of(first_cells) ==
    IF has_th(first_cells)
    THEN [j \in 1..Len(first_cells) |->
             OrBlank(escape_pipes(text_without_nested(first_cells[j])))]
    ELSE Repeat(<<" ">>, Len(first_cells))

\* The header row and the separator row.
header_lines(header) == <<md_row(header), md_separator(Len(header))>>

body_of(rows) ==
    IF has_th(cells_in_row(rows[1])) THEN Tail(rows) ELSE rows

\* The branch convert_table takes for a table under the options.
strategy_always_append(el, options) ==
    IF options.preserve_tables_as_html THEN "raw"
    ELSE IF options.nested_table_handling = "html" THEN "html" ELSE "append"

strategy_nesting_first(el, options) ==
    IF has_table(el)
    THEN IF options.nested_table_handling = "html" THEN "html" ELSE "append"
    ELSE IF options.preserve_tables_as_html THEN "raw" ELSE "standard"

strategy(el, options) ==
    IF options.preserve_tables_as_html THEN "raw"
    ELSE IF has_table(el)
         THEN IF options.nested_table_handling = "html" THEN "html" ELSE "append"
         ELSE "standard"

-----------------------------------------------------------------------------
(* The tables converted: rows of at most MaxCells cells, at most MaxRows   *)
(* rows, given as direct child rows or as a thead and a tbody.             *)

NTleaf ==
    Table({}, <<>>, <<>>, << <<Cell("td", {}, <<TextNode(<<"z">>)>>)>> >>)

\* One row, two columns.
NTflat ==
    Table({"class"}, <<>>, <<>>,
          << <<Cell("td", {"colspan", "style"}, <<TextNode(<<"x">>)>>),
               Cell("td", {}, <<TextNode(<<"y">>)>>)>> >>)

\* A thead row and a tbody row.
NThead ==
    Table({}, << << <<Cell("th", {}, <<TextNode(<<"x">>)>>)>> >> >>,
              << << <<Cell("td", {}, <<TextNode(<<"y", "|">>)>>)>> >> >>,
          <<>>)

\* A table that holds a table.
NTdeep ==
    Table({"class"}, <<>>, <<>>,
          << <<Cell("td", {}, <<TextNode(<<"x">>), TableNode(NTleaf)>>)>> >>)

CellShapes ==
    { Cell("th", {}, <<TextNode(<<"h">>)>>),
      Cell("th", {}, <<TableNode(NTflat)>>),
      Cell("td", {}, <<TextNode(<<"a", "|", "b">>)>>),
      Cell("td", {}, <<TableNode(NTflat)>>),
      Cell("td", {}, <<TextNode(<<"a", "|">>), TableNode(NTdeep),
                       TableNode(NThead), TextNode(<<" ", "b">>)>>) }

RowShapes ==
    {<<>>} \cup
    { [i \in 1..w |-> IF i = 1 THEN s1 ELSE s2] :
        w \in 1..MaxCells, s1 \in CellShapes, s2 \in CellShapes }

RowSeqs ==
    { [i \in 1..n |-> IF i = 1 THEN r1 ELSE r2] :
        n \in 0..MaxRows, r1 \in RowShapes, r2 \in RowShapes }

Tables ==
    { Table({"class"}, <<>>, <<>>, rs) : rs \in RowSeqs } \cup
    { Table({"class"}, <<Prefix(rs, 1)>>, <<Tail(rs)>>, <<>>) :
        rs \in RowSeqs \ {<<>>} }

\* The tables converted under every combination of options.
SmallTables == { Table({"class"}, <<>>, <<>>, <<r>>) : r \in RowShapes }

Options ==
    [preserve_tables_as_html : BOOLEAN,
     nested_table_handling : {"append", "html"},
     sanitize_tables_html : BOOLEAN]

\* The options convert_stream constructs the converter with.
StreamOptions ==
    [preserve_tables_as_html |-> FALSE,
     nested_table_handling |-> "append",
     sanitize_tables_html |-> TRUE]

-----------------------------------------------------------------------------
(* convert_table as a state machine.                                       *)

VARIABLES
    pc,                 \* where convert_table is: idle, select, header, body, done
    el, text, convert_as_inline, options,     \* the call's arguments and options
    rows, header_cells, body_rows,            \* locals of the 'append' branch
    md_lines, nested_blocks, nested_idx,
    r,                  \* the number of body rows converted
    texts,              \* the cells of the last body row, as emitted
    result,             \* the value returned
    faults              \* the failures of the call: i >= 1 when the rendering
                        \* of nested table i raises, 0 once a statement of
                        \* convert_table's own try has raised

tvars == <<pc, el, text, convert_as_inline, options, rows, header_cells,
           body_rows, md_lines, nested_blocks, nested_idx, r, texts, result,
           faults>>

\* The table-row repair pass (_fix_markdown_tables): the text it is given and
\* what it returned, pass after pass.
VARIABLES markdown_content, repaired

rvars == <<markdown_content, repaired>>

RIdle ==
    /\ markdown_content = <<>>
    /\ repaired = <<>>

\* The HTML sanitizer (_preprocess_html): the text convert_string is given
\* and what the sanitizer returned, call after call.
VARIABLES html_content, sanitized

svars == <<html_content, sanitized>>

SIdle ==
    /\ html_content = <<>>
    /\ sanitized = <<>>

\* The request handler (main): where it is, its argument, the HTML content
\* it extracted, the conversion's result and the response returned.
VARIABLES main_pc, args, html, conversion, response

mvars == <<main_pc, args, html, conversion, response>>

\* A Python value: None, an int, a str, bytes, a list or a dict.  text is
\* the text of a str, of bytes (decoded) or of an int; items are the items
\* of a list and the (key, value) pairs of a dict.
Py(kind, t, items) == [kind |-> kind, text |-> t, items |-> items]
None == Py("none", <<>>, <<>>)

MIdle ==
    /\ main_pc = "idle"
    /\ args = None
    /\ html = None
    /\ conversion = None
    /\ response = [statusCode |-> 0, filename |-> <<>>, body |-> <<>>,
                   error |-> ""]

NoTable == Table({}, <<>>, <<>>, <<>>)

\* The values convert_table returns.
NoResult ==
    [kind |-> "none", lines |-> <<>>, blocks |-> <<>>, html |-> <<>>,
     text |-> <<>>, inline |-> FALSE]
\* "\n\n" + self._sanitize_table_html(str(el)) + "\n\n"
HtmlResult(t) ==
    [kind |-> "html", lines |-> <<>>, blocks |-> <<>>, html |-> <<t>>,
     text |-> <<>>, inline |-> FALSE]
\* '\n'.join(md_lines) [+ '\n\n' + '\n\n'.join(nested_blocks)] + '\n'
FlatResult(lines, blocks) ==
    [kind |-> "flat", lines |-> lines, blocks |-> blocks, html |-> <<>>,
     text |-> <<>>, inline |-> FALSE]
\* ''
EmptyResult ==
    [kind |-> "empty", lines |-> <<>>, blocks |-> <<>>, html |-> <<>>,
     text |-> <<>>, inline |-> FALSE]
\* super().convert_table(el, text, convert_as_inline): the library's
\* converter, a function of its three arguments.
StandardResult(e, t, inline) ==
    [kind |-> "standard", lines |-> <<>>, blocks |-> <<>>, html |-> <<e>>,
     text |-> t, inline |-> inline]

TInit ==
    /\ pc = "idle"
    /\ el = NoTable
    /\ text = <<>>
    /\ convert_as_inline = FALSE
    /\ options = StreamOptions
    /\ rows = <<>>
    /\ header_cells = <<>>
    /\ body_rows = <<>>
    /\ md_lines = <<>>
    /\ nested_blocks = <<>>
    /\ nested_idx = 0
    /\ r = 0
    /\ texts = <<>>
    /\ result = NoResult
    /\ faults = {}

\* The nested table whose rendering may raise, and the failures the
\* conversion of a row may meet: none, or that one when the row holds it.
RaisingIndex == 2
RowFaults(cells, start_idx) ==
    {f \in {{}, {RaisingIndex}} :
        f \subseteq start_idx..(index_before(cells, Len(cells) + 1, start_idx) - 1)}

TLocals == <<rows, header_cells, body_rows, md_lines, nested_blocks,
             nested_idx, r, texts>>
TArgs == <<el, text, convert_as_inline, options>>

\* convert_table is called on a table of the document (convert_stream's
\* converter and options).
CallFromStream(e) ==
    /\ pc = "idle"
    /\ pc' = "select"
    /\ el' = e
    /\ faults' = {}
    /\ text' = <<"text">>
    /\ convert_as_inline' = FALSE
    /\ options' = StreamOptions
    /\ UNCHANGED <<TLocals, result>>
    /\ UNCHANGED <<rvars, svars, mvars>>

\* convert_table is called on a converter constructed with other options.
CallWithOptions(e, t, inline, o) ==
    /\ pc = "idle"
    /\ pc' = "select"
    /\ el' = e
    /\ faults' = {}
    /\ text' = t
    /\ convert_as_inline' = inline
    /\ options' = o
    /\ UNCHANGED <<TLocals, result>>
    /\ UNCHANGED <<rvars, svars, mvars>>

PreserveAsHtml ==
    /\ pc = "select"
    /\ strategy(el, options) = "raw"
    /\ result' = HtmlResult(_sanitize_table_html(el, options))
    /\ pc' = "done"
    /\ UNCHANGED <<TArgs, TLocals>>
    /\ UNCHANGED <<rvars, svars, mvars, faults>>

NestedAsHtml ==
    /\ pc = "select"
    /\ strategy(el, options) = "html"
    /\ result' = HtmlResult(_sanitize_table_html(el, options))
    /\ pc' = "done"
    /\ UNCHANGED <<TArgs, TLocals>>
    /\ UNCHANGED <<rvars, svars, mvars, faults>>

\* Default behavior for non-nested tables.
Standard ==
    /\ pc = "select"
    /\ strategy(el, options) = "standard"
    /\ result' = StandardResult(el, text, convert_as_inline)
    /\ pc' = "done"
    /\ UNCHANGED <<TArgs, TLocals>>
    /\ UNCHANGED <<rvars, svars, mvars, faults>>

\* 'append': nested_idx = 1, the rows are listed; no row, '' is returned.
StartAppend ==
    /\ pc = "select"
    /\ strategy(el, options) = "append"
    /\ nested_idx' = 1
    /\ rows' = iter_rows(el)
    /\ IF rows' = <<>>
       THEN /\ result' = EmptyResult
            /\ pc' = "done"
       ELSE /\ result' = result
            /\ pc' = "header"
    /\ UNCHANGED <<TArgs, header_cells, body_rows, md_lines, nested_blocks,
                   r, texts>>
    /\ UNCHANGED <<rvars, svars, mvars, faults>>

\* Determine header; the header row and the separator row are emitted.
DetermineHeader ==
    /\ pc = "header"
    /\ header_cells' = header_of(cells_in_row(rows[1]))
    /\ body_rows' = body_of(rows)
    /\ md_lines' = header_lines(header_cells')
    /\ nested_blocks' = <<>>
    /\ pc' = "body"
    /\ UNCHANGED <<TArgs, rows, nested_idx, r, texts, result>>
    /\ UNCHANGED <<rvars, svars, mvars, faults>>

\* One iteration of the loop over body_rows.
RowConverted(done) ==
    /\ texts' = pad_truncate(done.texts, Len(header_cells))
    /\ md_lines' = Append(md_lines, md_row(texts'))
    /\ nested_blocks' = nested_blocks \o done.row_blocks
    /\ nested_idx' = done.nested_idx

BodyRow ==
    /\ pc = "body"
    /\ r < Len(body_rows)
    /\ \E f \in RowFaults(cells_in_row(body_rows[r + 1]), nested_idx) :
          /\ RowConverted(convert_cells(cells_in_row(body_rows[r + 1]),
                                        nested_idx, options, f))
          /\ faults' = faults \cup f
    /\ r' = r + 1
    /\ UNCHANGED <<TArgs, pc, rows, header_cells, body_rows, result>>
    /\ UNCHANGED <<rvars, svars, mvars>>

\* The loop is over: the lines and the blocks are joined and returned.
Finish ==
    /\ pc = "body"
    /\ r = Len(body_rows)
    /\ result' = FlatResult(md_lines, nested_blocks)
    /\ pc' = "done"
    /\ UNCHANGED <<TArgs, TLocals>>
    /\ UNCHANGED <<rvars, svars, mvars, faults>>

\* except Exception: pass; return super().convert_table(el, text,
\* convert_as_inline).  A statement of the try raised: the locals are
\* dropped with the frame and the library's converter answers.
Fallback ==
    /\ pc \in {"select", "header", "body"}
    /\ result' = StandardResult(el, text, convert_as_inline)
    /\ pc' = "done"
    /\ rows' = <<>>
    /\ header_cells' = <<>>
    /\ body_rows' = <<>>
    /\ md_lines' = <<>>
    /\ nested_blocks' = <<>>
    /\ nested_idx' = 0
    /\ r' = 0
    /\ texts' = <<>>
    /\ faults' = faults \cup {0}
    /\ UNCHANGED TArgs
    /\ UNCHANGED <<rvars, svars, mvars>>

TNext ==
    \/ \E e \in Tables : CallFromStream(e)
    \/ \E e \in SmallTables, inline \in BOOLEAN, o \in Options :
            CallWithOptions(e, <<"text">>, inline, o)
    \/ Fallback
    \/ PreserveAsHtml
    \/ NestedAsHtml
    \/ Standard
    \/ StartAppend
    \/ DetermineHeader
    \/ BodyRow
    \/ Finish

vars == <<tvars, rvars, svars, mvars>>

Init == TInit /\ RIdle /\ SIdle /\ MIdle
Next == TNext
Spec == Init /\ [][Next]_vars

-----------------------------------------------------------------------------
(* Properties of the table flattener.                                      *)

\* The cells of a rendered line: one more unescaped pipe than cells.
PipeCount(line) ==
    Cardinality({i \in 1..Len(line) :
                    line[i] = "|" /\ (i = 1 \/ line[i - 1] # "\\")})
CellCount(line) == PipeCount(line) - 1

Flattening == pc = "body" \/ (pc = "done" /\ result.kind = "flat")

\* The body row converted last, and the tables below a cell.
LastRow == cells_in_row(body_rows[r])
TablesOf(cell) == find_all_table(cell.children)
Min(a, b) == IF a < b THEN a ELSE b

(* C1: every emitted body row has exactly as many cells as the emitted     *)
(* header row: a source row with fewer cells is padded with empty cells,   *)
(* one with more cells is truncated to the header's column count.          *)
C1_RowWidth ==
    Flattening =>
        /\ Len(md_lines) = 2 + r
        /\ md_lines[1] = md_row(header_cells)
        /\ \A i \in 3..Len(md_lines) :
              CellCount(md_lines[i]) = CellCount(md_lines[1])
        /\ r > 0 =>
              /\ Len(texts) = Len(header_cells)
              /\ md_lines[Len(md_lines)] = md_row(texts)
              /\ \A j \in 1..Len(texts) : j > Len(LastRow) => texts[j] = <<>>

\* A body row wider than a header of one column has been converted.
C1_Witness ==
    /\ pc = "body"
    /\ r > 0
    /\ Len(header_cells) = 1
    /\ Len(LastRow) = 2

(* C2: the indices of the Nested Table Blocks start at 1, are assigned in  *)
(* row-then-cell document order, are strictly increasing and never reused, *)
(* and a cell with k nested tables consumes k consecutive indices.         *)
C2_Indices ==
    Flattening =>
        LET tables == TablesInRows(Prefix(body_rows, r))
        IN  /\ nested_idx = Len(nested_blocks) + 1
            /\ Len(nested_blocks) = Len(tables)
            /\ \A i \in 1..Len(nested_blocks) :
                  /\ nested_blocks[i].idx = i
                  /\ nested_blocks[i] =
                        Block(i, convert_nested_table_to_markdown(tables[i],
                                                    options, i \in faults))

\* Two body rows hold nested tables, and one cell holds several.
C2_Witness ==
    /\ pc = "done"
    /\ result.kind = "flat"
    /\ Len(body_rows) >= 2
    /\ \A i \in 1..2 : TablesInRows(<<body_rows[i]>>) # <<>>
    /\ \E i \in 1..Len(body_rows) : \E j \in 1..Len(body_rows[i]) :
          Len(TablesOf(body_rows[i][j])) >= 2

\* The symbols of the text below a cell's nested tables, and of its own text.
NestedText(cell) ==
    Range(Flatten(Strings(
        Flatten([k \in 1..Len(cell.children) |->
            IF cell.children[k].kind = "table"
            THEN <<cell.children[k]>> ELSE <<>>]))))
OwnText(cell) ==
    Range(Flatten(Strings(
        Flatten([k \in 1..Len(cell.children) |->
            IF cell.children[k].kind = "text"
            THEN <<cell.children[k]>> ELSE <<>>]))))
Markers == {ref(a, b) : a \in 1..nested_idx, b \in 1..nested_idx}

\* The text emitted for the cell holds nothing of its nested tables (no
\* symbol that occurs below them and not in the cell's own text): only its
\* own text (with escapes and spaces) and a marker in parentheses.
OwnTextAndMarker(emitted, cell) ==
    /\ Range(emitted) \cap (NestedText(cell) \ OwnText(cell)) = {}
    /\ Range(emitted) \subseteq
          OwnText(cell) \cup {" ", "\\", "(", ")"} \cup Markers

(* C3: the text emitted for a cell, of the header row or of a body row,    *)
(* never contains text of a table nested inside that cell: it is at most   *)
(* the cell's own non-table text plus a reference marker.                  *)
C3_NoNestedText ==
    Flattening =>
        /\ \A j \in 1..Len(header_cells) :
              OwnTextAndMarker(header_cells[j], rows[1][j])
        /\ r > 0 =>
              \A j \in 1..Min(Len(texts), Len(LastRow)) :
                  OwnTextAndMarker(texts[j], LastRow[j])

\* The header row holds a cell with a nested table, and the body row
\* converted last a cell with text of its own and nested tables.
C3_Witness ==
    /\ pc = "body"
    /\ r > 0
    /\ has_th(rows[1])
    /\ \E j \in 1..Len(rows[1]) : TablesOf(rows[1][j]) # <<>>
    /\ \E j \in 1..Min(Len(texts), Len(LastRow)) :
          /\ TablesOf(LastRow[j]) # <<>>
          /\ "a" \in Range(texts[j])

\* The text holds exactly one reference marker.
OneMarker(emitted) ==
    Cardinality({k \in 1..Len(emitted) : emitted[k] \in Markers}) = 1

(* C4: whenever a cell of the outer table contains nested tables, the      *)
(* output holds, in that cell's position, exactly one reference marker,    *)
(* and a Nested Table Block exists for each nested table: for every cell   *)
(* of every row, the header row and the cells beyond the header's column   *)
(* count included.                                                         *)
C4_AlwaysReplaced ==
    /\ (Flattening /\ has_th(rows[1])) =>
          \A j \in 1..Len(rows[1]) :
              TablesOf(rows[1][j]) # <<>> => OneMarker(header_cells[j])
    /\ (Flattening /\ r > 0) =>
          \A j \in 1..Len(LastRow) :
              TablesOf(LastRow[j]) # <<>> =>
                  j <= Len(texts) /\ OneMarker(texts[j])
    /\ (pc = "done" /\ result.kind = "flat") =>
          Len(result.blocks) = Len(TablesInRows(rows))

(* C5, as claimed: for every table with no nested table anywhere in its    *)
(* subtree, convert_table returns what the standard converter returns for  *)
(* the same element, text and inline flag.                                 *)
C5_AlwaysStandard ==
    (pc = "done" /\ ~has_table(el)) =>
        result = StandardResult(el, text, convert_as_inline)

(* C5, amended: for every table with no nested table anywhere in its       *)
(* subtree, converted with preserve_tables_as_html not set, convert_table  *)
(* returns what the standard converter returns for the same element, text  *)
(* and inline flag.                                                        *)
C5_StandardUnlessPreserved ==
    (pc = "done" /\ ~has_table(el) /\ ~options.preserve_tables_as_html) =>
        result = StandardResult(el, text, convert_as_inline)

\* A table with rows and no nested table was converted, with
\* nested_table_handling 'html' and preserve_tables_as_html not set.
C5_Witness ==
    /\ pc = "done"
    /\ ~has_table(el)
    /\ OwnRows(el) # <<>>
    /\ ~options.preserve_tables_as_html
    /\ options.nested_table_handling = "html"

\* The index of the first nested table of cell j of the body row converted
\* last: one more than the nested tables before it, in document order.
FirstIndex(j) ==
    1 + Len(TablesInRows(Prefix(body_rows, r - 1)))
      + Len(TablesInRows(<<Prefix(LastRow, j - 1)>>))

\* The marker as the claim words it, and as a Markdown link.
PlainMarker(n, m) ==
    IF n = m THEN "(See Table " \o ToString(n) \o ")"
    ELSE "(See Tables " \o ToString(n) \o "-" \o ToString(m) \o ")"
LinkMarker(n, m) ==
    IF n = m
    THEN "[See Table " \o ToString(n) \o "](#table-" \o ToString(n) \o ")"
    ELSE "[See Tables " \o ToString(n) \o "-" \o ToString(m) \o "](#table-"
         \o ToString(n) \o ")"

OwnEscaped(cell) == escape_pipes(text_without_nested(cell))
LastIndex(j) == FirstIndex(j) + Len(TablesOf(LastRow[j])) - 1

BlocksInOrder ==
    (pc = "done" /\ result.kind = "flat") =>
        /\ result.lines = md_lines
        /\ \A i \in 1..Len(result.blocks) :
              result.blocks[i].label = "**Table " \o ToString(i) \o ":**"

FellBack == pc = "done" /\ 0 \in faults

\* The tables below the body rows converted so far, in document order.
ConvertedTables == TablesInRows(Prefix(body_rows, r))

(* C11: a failure inside convert_table while handling a table does not     *)
(* leave convert_table: the call returns the standard converter's output   *)
(* for the outer table, and nothing of the partial nested work (blocks,    *)
(* indices, markers) is in it; a failure while rendering one nested table  *)
(* is recovered in that nested table only: its block holds the sanitized   *)
(* HTML of that table, every other block is what it is without the         *)
(* failure, and so are the cells of the rows.                              *)
C11_FailuresContained ==
    /\ pc = "done" => result.kind \in {"html", "flat", "empty", "standard"}
    /\ (pc = "done" /\ result.kind \in {"html", "flat", "empty"}) =>
          0 \notin faults
    /\ FellBack =>
          /\ result = StandardResult(el, text, convert_as_inline)
          /\ result.lines = <<>> /\ result.blocks = <<>>
          /\ md_lines = <<>> /\ nested_blocks = <<>> /\ nested_idx = 0
    /\ Flattening =>
          /\ LET tables == ConvertedTables
             IN  /\ Len(nested_blocks) = Len(tables)
                 /\ \A i \in 1..Len(nested_blocks) :
                       nested_blocks[i] =
                           IF i \in faults
                           THEN Block(i, HtmlBody(_sanitize_table_html(
                                                      tables[i], options)))
                           ELSE Block(i, convert_nested_table_to_markdown(
                                             tables[i], options, FALSE))
          /\ r > 0 =>
                texts = pad_truncate(
                            convert_cells(LastRow, FirstIndex(1), options,
                                          {}).texts,
                            Len(header_cells))
          /\ pc = "done" =>
                result.lines = md_lines /\ result.blocks = nested_blocks

\* The rendering of the second of three nested tables raised: its block is
\* HTML where it is Markdown without the failure, and the blocks before and
\* after it are the Markdown they are without the failure.
C11_Witness ==
    /\ pc = "done"
    /\ result.kind = "flat"
    /\ faults = {RaisingIndex}
    /\ Len(nested_blocks) > RaisingIndex
    /\ nested_blocks[RaisingIndex].kind = "html"
    /\ convert_nested_table_to_markdown(ConvertedTables[RaisingIndex],
                                        options, FALSE).kind = "md"
    /\ nested_blocks[RaisingIndex - 1].kind = "md"
    /\ nested_blocks[RaisingIndex + 1].kind = "md"

\* A statement of the try raised in a call for a table with nesting, and
\* the call returned the standard converter's output.
C11_FallbackReached ==
    /\ FellBack
    /\ has_table(el)
    /\ ~options.preserve_tables_as_html

(* C12: the rows enumerated for an outer table are rows of that table      *)
(* itself, never rows of a table nested inside it: the rows of its own     *)
(* thead, then of its own tbody, when it has them, and its direct child    *)
(* rows otherwise; so for an outer table with no thead and no tbody of its *)
(* own whose nested table has one, the outer table's direct child rows.    *)
C12_OwnRows ==
    (pc \in {"header", "body"} \/ Flattening) =>
        rows = rows_of(el.thead, el.tbody, el.trs)

\* The call is in, or returned from, the flattening branch.
InAppend ==
    \/ pc \in {"header", "body"}
    \/ pc = "done" /\ result.kind \in {"flat", "empty"}

(* C13: strategy selection, in a call where no statement raised.  With     *)
(* preserve_tables_as_html set, every table, with or without nesting and   *)
(* whatever nested_table_handling is, is rendered as the sanitized HTML of *)
(* the whole table; otherwise a table that contains a nested table is      *)
(* rendered as the sanitized HTML of the whole table when                  *)
(* nested_table_handling is 'html' and is flattened when it is not; and a  *)
(* table without nesting goes to the standard converter.  The flattening   *)
(* branch is never taken with preserve_tables_as_html set or with          *)
(* nested_table_handling 'html'.  (The sanitized HTML is what              *)
(* _sanitize_table_html returns: the attribute-filtered tree unless        *)
(* sanitize_tables_html is off.)                                           *)
C13_StrategySelection ==
    /\ (pc = "done" /\ 0 \notin faults) =>
          /\ options.preserve_tables_as_html =>
                result = HtmlResult(_sanitize_table_html(el, options))
          /\ (~options.preserve_tables_as_html /\ has_table(el)
                /\ options.nested_table_handling = "html") =>
                result = HtmlResult(_sanitize_table_html(el, options))
          /\ (~options.preserve_tables_as_html /\ has_table(el)
                /\ options.nested_table_handling # "html") =>
                result.kind \in {"flat", "empty"}
          /\ (~options.preserve_tables_as_html /\ ~has_table(el)) =>
                result = StandardResult(el, text, convert_as_inline)
          /\ (result.kind = "html" /\ options.sanitize_tables_html) =>
                result.html = <<sanitize_tree(el)>>
    /\ InAppend =>
          /\ ~options.preserve_tables_as_html
          /\ options.nested_table_handling # "html"
          /\ has_table(el)

\* A table with nesting was converted with preserve_tables_as_html set and
\* nested_table_handling 'append': the whole table came out as HTML with
\* its attributes filtered.
C13_Witness ==
    /\ pc = "done"
    /\ 0 \notin faults
    /\ has_table(el)
    /\ options.preserve_tables_as_html
    /\ options.nested_table_handling = "append"
    /\ options.sanitize_tables_html
    /\ result.kind = "html"
    /\ result.html # <<el>>

(* C15: in the flattened output of one outer table, each table nested in   *)
(* a body cell is rendered in exactly one Nested Table Block: there are as *)
(* many blocks as tables directly nested in the body cells, one for each   *)
(* in order, and a table nested two levels deep has no numbered block of   *)
(* its own (it is only inside its parent's sanitized-HTML block).          *)
C15_OneBlockPerNestedTable ==
    Flattening =>
        LET direct == DirectTables(Prefix(body_rows, r))
        IN  /\ Len(nested_blocks) = Len(direct)
            /\ \A i \in 1..Min(Len(nested_blocks), Len(direct)) :
                  nested_blocks[i] =
                      Block(i, convert_nested_table_to_markdown(
                                   direct[i], options, i \in faults))

-----------------------------------------------------------------------------
(* The table-row repair pass: _fix_markdown_tables and _clean_table_row.   *)
(* A hyphen occurs in a text only as the symbol "---".                     *)

\* str.split(sep), sep one symbol.
RECURSIVE split(_, _)
split(s, sep) ==
    IF sep \notin Range(s) THEN <<s>>
    ELSE LET i == CHOOSE i \in 1..Len(s) :
                      s[i] = sep /\ \A k \in 1..(i - 1) : s[k] # sep
         IN <<SubSeq(s, 1, i - 1)>> \o split(SubSeq(s, i + 1, Len(s)), sep)

\* str.count('|'), str.startswith('|'), str.endswith('|'), str.rstrip('|')
count(s, c) == Cardinality({i \in 1..Len(s) : s[i] = c})
startswith(s, c) == s # <<>> /\ s[1] = c
endswith(s, c) == s # <<>> /\ s[Len(s)] = c

RECURSIVE rstrip_chars(_, _)
rstrip_chars(s, c) ==
    IF endswith(s, c) THEN rstrip_chars(SubSeq(s, 1, Len(s) - 1), c) ELSE s

\* re.sub(r'\s+', ' ', s)
RECURSIVE collapse_whitespace(_)
collapse_whitespace(s) ==
    IF s = <<>> THEN <<>>
    ELSE IF IsSpace(Head(s)) THEN <<" ">> \o collapse_whitespace(LStrip(s))
    ELSE <<Head(s)>> \o collapse_whitespace(Tail(s))

\* The parts of a row: the first and the last are kept, each other part is
\* a cell, stripped, its whitespace collapsed, with a space on either side.
cleaned_parts(parts) ==
    [i \in 1..Len(parts) |->
        IF i = 1 \/ i = Len(parts) THEN parts[i]
        ELSE <<" ">> \o collapse_whitespace(Strip(parts[i])) \o <<" ">>]

_clean_table_row(row) ==
    IF Strip(row) = <<>> \/ "|" \notin Range(row) THEN row
    ELSE Join(<<"|">>, cleaned_parts(split(row, "|")))

\* The line looks like a table row.
is_table_row(line) ==
    /\ "|" \in Range(line)
    /\ startswith(Strip(line), "|")
    /\ endswith(Strip(line), "|")

\* The look-ahead stops at next_line: a separator row, another proper table
\* row with as many pipes as table_row, an empty line or a line with no pipe.
stops_at(next_line, table_row) ==
    \/ "|" \in Range(next_line) /\ "---" \in Range(next_line)
    \/ /\ "|" \in Range(next_line)
       /\ startswith(next_line, "|")
       /\ endswith(next_line, "|")
       /\ count(next_line, "|") >= count(table_row, "|")
    \/ next_line = <<>>
    \/ "|" \notin Range(next_line)

\* table_row.rstrip('|').rstrip() + ' ' + continuation_text, closed by ' |'.
closed(table_row) ==
    IF endswith(table_row, "|") THEN table_row ELSE table_row \o <<" ", "|">>

merged(table_row, continuation_text) ==
    IF continuation_text = <<>> THEN table_row
    ELSE closed(RStrip(rstrip_chars(table_row, "|")) \o <<" ">>
                \o continuation_text)

\* The look-ahead loop from line j on: the merged row and the first line
\* not processed.
RECURSIVE look_ahead(_, _, _)
look_ahead(lines, j, table_row) ==
    IF j > Len(lines) \/ stops_at(Strip(lines[j]), table_row)
    THEN [table_row |-> table_row, j |-> j]
    ELSE look_ahead(lines, j + 1, merged(table_row, Strip(Strip(lines[j]))))

\* The loop over the lines from line i on: the result lines.
RECURSIVE result_lines(_, _)
row_then_rest(lines, ahead) ==
    <<_clean_table_row(ahead.table_row)>> \o result_lines(lines, ahead.j)

result_lines(lines, i) ==
    IF i > Len(lines) THEN <<>>
    ELSE IF is_table_row(lines[i])
    THEN row_then_rest(lines, look_ahead(lines, i + 1, lines[i]))
    ELSE <<lines[i]>> \o result_lines(lines, i + 1)

_fix_markdown_tables(md) ==
    Join(<<"\n">>, result_lines(split(md, "\n"), 1))

\* The texts the pass is given: up to MaxLines lines, each one of these:
\* complete rows of one and two cells, a row whose last cell is empty, a
\* row with an escaped pipe, a separator row, bare pipes, continuation
\* lines, a line of text and an empty line.
MaxLines == 3

LineShapes ==
    { <<"|", " ", "a", " ", "|">>,
      <<"|", " ", "a", " ", "|", " ", "b", " ", "|">>,
      <<"|", " ", "a", " ", "|", "|">>,
      <<"|", " ", "a", " ", "\\", "|", " ", "b", " ", "|">>,
      <<"|", " ", "---", " ", "|">>,
      <<"|">>,
      <<"|", "|">>,
      <<"b", " ", "|">>,
      <<"a", "|">>,
      <<"a">>,
      <<>> }

RepairInputs ==
    { Join(<<"\n">>, ls) :
        ls \in UNION { [1..n -> LineShapes] : n \in 1..MaxLines } }

RInit ==
    /\ markdown_content \in RepairInputs
    /\ repaired = <<>>

\* main: markdown_content = _fix_markdown_tables(markdown_content).
Repair ==
    /\ repaired = <<>>
    /\ repaired' = <<_fix_markdown_tables(markdown_content)>>
    /\ UNCHANGED <<markdown_content, tvars, svars, mvars>>

\* The pass applied to the text it returned.
RepairAgain ==
    /\ Len(repaired) = 1
    /\ repaired' = Append(repaired, _fix_markdown_tables(repaired[1]))
    /\ UNCHANGED <<markdown_content, tvars, svars, mvars>>

InitRepair == TInit /\ RInit /\ SIdle /\ MIdle
NextRepair == Repair \/ RepairAgain
SpecRepair == InitRepair /\ [][NextRepair]_vars

(* C7: the table-row repair pass is idempotent: for every Markdown text,   *)
(* the pass applied to its own result returns that result.                 *)
C7_Idempotent ==
    Len(repaired) = 2 => repaired[2] = repaired[1]

\* The lines of a flattened table after the repair pass.
repaired_lines(lines) ==
    split(_fix_markdown_tables(Join(<<"\n">>, lines)), "\n")

(* C14: the repair pass never merges two distinct rows of a table the      *)
(* flattener produced: for every flattened table, _fix_markdown_tables     *)
(* returns as many lines as it was given, and each line still holds as     *)
(* many cells as the header, also when a cell's text holds a literal pipe  *)
(* that the flattener escaped as \|.                                       *)
C14_RowsKept ==
    (pc = "done" /\ result.kind = "flat") =>
        /\ Len(repaired_lines(result.lines)) = Len(result.lines)
        /\ \A i \in 1..Len(repaired_lines(result.lines)) :
              CellCount(repaired_lines(result.lines)[i])
                  = CellCount(result.lines[1])

-----------------------------------------------------------------------------
(* The HTML sanitizer: _preprocess_html.  An HTML text is a sequence of    *)
(* symbols in which every '>' and every '"' is a symbol of its own and     *)
(* every other symbol ("<div", "id=", "content", "x", " ") holds neither;  *)
(* the literal parts of the regular expressions are sequences of these     *)
(* symbols.  Texts are in lower case but for the names the expressions     *)
(* spell with capitals, so that IGNORECASE changes nothing.                *)

\* The elements of a regular expression: a literal symbol, [^c]* (greedy),
\* .*? (lazy, DOTALL), \s* (greedy) and an optional literal symbol.
Lit(tok) == [kind |-> "lit", tok |-> tok]
Literal(toks) == [i \in 1..Len(toks) |-> Lit(toks[i])]
NotStar(c) == <<[kind |-> "notstar", tok |-> c]>>
AnyLazy == <<[kind |-> "lazy", tok |-> ""]>>
Spaces == <<[kind |-> "spaces", tok |-> ""]>>
Opt(tok) == <<[kind |-> "opt", tok |-> tok]>>

\* The symbols a greedy element takes, and how many of them it can take
\* from position i on.
takes(e, c) ==
    \/ e.kind = "notstar" /\ c # e.tok
    \/ e.kind = "spaces" /\ IsSpace(c)
    \/ e.kind = "opt" /\ c = e.tok

RECURSIVE run(_, _, _)
run(e, t, i) ==
    IF i > Len(t) \/ ~takes(e, t[i]) THEN 0
    ELSE IF e.kind = "opt" THEN 1
    ELSE 1 + run(e, t, i + 1)

\* The position after the match of the elements k.. of p at position i of
\* t, as the backtracking matcher finds it; 0 when there is none.
RECURSIVE match(_, _, _, _)
RECURSIVE greedy(_, _, _, _, _)
RECURSIVE lazy(_, _, _, _, _)

first_of(e, p, k, t, i, n) ==
    IF e # 0 THEN e ELSE IF n = 0 THEN 0 ELSE greedy(p, k, t, i, n - 1)

greedy(p, k, t, i, n) == first_of(match(p, k + 1, t, i + n), p, k, t, i, n)

next_of(e, p, k, t, i, n) ==
    IF e # 0 THEN e ELSE IF i + n > Len(t) THEN 0 ELSE lazy(p, k, t, i, n + 1)

lazy(p, k, t, i, n) == next_of(match(p, k + 1, t, i + n), p, k, t, i, n)

match(p, k, t, i) ==
    IF k > Len(p) THEN i
    ELSE IF p[k].kind = "lit"
    THEN (IF i <= Len(t) /\ t[i] = p[k].tok THEN match(p, k + 1, t, i + 1)
          ELSE 0)
    ELSE IF p[k].kind = "lazy" THEN lazy(p, k, t, i, 0)
    ELSE greedy(p, k, t, i, run(p[k], t, i))

\* re.search(p, t): the position where the leftmost match starts, 0 when
\* there is none.
RECURSIVE search_from(_, _, _)
search_from(p, t, i) ==
    IF i > Len(t) THEN 0
    ELSE IF match(p, 1, t, i) # 0 THEN i
    ELSE search_from(p, t, i + 1)

re_search(p, t) == search_from(p, t, 1)

\* re.sub(p, '', t): the leftmost non-overlapping matches removed.
RECURSIVE sub_from(_, _, _)
sub_after(e, p, t, i) ==
    IF e = 0 THEN <<t[i]>> \o sub_from(p, t, i + 1) ELSE sub_from(p, t, e)

sub_from(p, t, i) ==
    IF i > Len(t) THEN <<>> ELSE sub_after(match(p, 1, t, i), p, t, i)

re_sub(p, t) == sub_from(p, t, 1)

\* The regular expressions of the steps, in the order of the code.
ContentDiv ==
    Literal(<<"<div", " ", "id=", "\"", "content">>) \o NotStar(">")
    \o Literal(<<">">>)
LikesDiv ==
    Literal(<<"<div", " ", "id=", "\"", "likes-and-labels-container">>)
CssLink ==
    Literal(<<"<link">>) \o NotStar(">")
    \o Literal(<<"rel=", "\"", "stylesheet", "\"">>) \o NotStar(">")
    \o Opt("/") \o Literal(<<">">>)
StyleBlock ==
    Literal(<<"<style", ">">>) \o AnyLazy \o Literal(<<"</style", ">">>)
InlineStyle ==
    Literal(<<"style=", "\"">>) \o NotStar("\"") \o Literal(<<"\"">>)
DrawioContainer ==
    Literal(<<"<div">>) \o NotStar(">")
    \o Literal(<<"id=", "\"", "drawio-macro-content">>) \o NotStar("\"")
    \o Literal(<<"\"">>) \o NotStar(">") \o Literal(<<">">>) \o AnyLazy
    \o Literal(<<"</div", ">">>) \o Spaces \o Literal(<<"<script">>)
    \o NotStar(">") \o Literal(<<">">>) \o AnyLazy
    \o Literal(<<"</script", ">">>)
Svg ==
    Literal(<<"<svg">>) \o NotStar(">") \o Literal(<<">">>) \o AnyLazy
    \o Literal(<<"</svg", ">">>)
Canvas ==
    Literal(<<"<canvas">>) \o NotStar(">") \o Literal(<<">">>) \o AnyLazy
    \o Literal(<<"</canvas", ">">>)
DiagramScript ==
    Literal(<<"<script">>) \o NotStar(">") \o Literal(<<">">>) \o Spaces
    \o Literal(<<"(function()">>) \o Spaces \o Literal(<<"{">>) \o Spaces
    \o Literal(<<"function startViewer()">>) \o AnyLazy
    \o Literal(<<"</script", ">">>)
DataImg ==
    Literal(<<"<img">>) \o NotStar(">")
    \o Literal(<<"src=", "\"", "data:">>) \o NotStar("\"")
    \o Literal(<<"\"">>) \o NotStar(">") \o Opt("/") \o Literal(<<">">>)
    \o Spaces
EvaluationText ==
    Literal(<<"<span">>) \o NotStar(">")
    \o Literal(<<">", "draw.io evaluation version", "</span", ">">>)
DiagramDiv ==
    Literal(<<"<div">>) \o NotStar(">") \o Literal(<<"class=", "\"">>)
    \o NotStar("\"") \o Literal(<<"geDiagramContainer">>) \o NotStar("\"")
    \o Literal(<<"\"">>) \o NotStar(">") \o Literal(<<">">>) \o AnyLazy
    \o Literal(<<"</div", ">">>)

\* Keep from the first <div id="content...>.
from_start(h, start_pos) ==
    IF start_pos = 0 THEN h ELSE SubSeq(h, start_pos, Len(h))
keep_from_content(h) == from_start(h, re_search(ContentDiv, h))

\* Cut after the first <div id="likes-and-labels-container">.
up_to_end(h, end_pos) ==
    IF end_pos = 0 THEN h ELSE SubSeq(h, 1, end_pos - 1)
cut_at_likes(h) == up_to_end(h, re_search(LikesDiv, h))

\* The removals, in the order of the code.
Removals ==
    <<CssLink, StyleBlock, InlineStyle, DrawioContainer, Svg, Canvas,
      DiagramScript, DataImg, EvaluationText, DiagramDiv>>

RECURSIVE remove_all(_, _, _)
remove_all(ps, k, h) ==
    IF k > Len(ps) THEN h ELSE remove_all(ps, k + 1, re_sub(ps[k], h))

_preprocess_html(h) == remove_all(Removals, 1, cut_at_likes(keep_from_content(h)))

\* The texts convert_string is given: up to MaxFragments of these pieces
\* one after the other.
MaxFragments == 5

Fragments ==
    { <<"<style">>,
      <<">">>,
      <<"</style", ">">>,
      <<"<svg", ">", "</svg", ">">>,
      <<"x">>,
      <<" ", "style=", "\"", "c", "\"">>,
      <<"<div", " ", "id=", "\"", "content", "\"", ">">>,
      <<"<div", " ", "id=", "\"", "likes-and-labels-container", "\"", ">">> }

HtmlInputs ==
    { Flatten(fs) :
        fs \in UNION { [1..n -> Fragments] : n \in 1..MaxFragments } }

SInit ==
    /\ html_content \in HtmlInputs
    /\ sanitized = <<>>

\* convert_string: html_content = self._preprocess_html(html_content).
ConvertString ==
    /\ sanitized = <<>>
    /\ sanitized' = <<_preprocess_html(html_content)>>
    /\ UNCHANGED <<html_content, tvars, rvars, mvars>>

\* convert_stream, called by convert_string with the sanitized text (ASCII,
\* which encode and decode leave as it is), sanitizes what it reads.
ConvertStream ==
    /\ Len(sanitized) = 1
    /\ sanitized' = Append(sanitized, _preprocess_html(sanitized[1]))
    /\ UNCHANGED <<html_content, tvars, rvars, mvars>>

InitSanitizer == TInit /\ RIdle /\ SInit /\ MIdle
NextSanitizer == ConvertString \/ ConvertStream
SpecSanitizer == InitSanitizer /\ [][NextSanitizer]_vars

(* C8: the HTML sanitizer is idempotent: for every HTML text, the          *)
(* sanitizer applied to its own result returns that result, so that what   *)
(* convert_stream sanitizes again is what convert_string sanitized.        *)
C8_Idempotent ==
    Len(sanitized) = 2 => sanitized[2] = sanitized[1]

-----------------------------------------------------------------------------
(* The request handler: main.                                              *)

PyInt(n) == Py("int", <<n>>, <<>>)
PyStr(t) == Py("str", t, <<>>)
PyBytes(t) == Py("bytes", t, <<>>)
BadBytes == Py("badbytes", <<>>, <<>>)     \* bytes that are no UTF-8 text
PyList(items) == Py("list", <<>>, items)
PyDict(pairs) == Py("dict", <<>>, pairs)
Pair(k, v) == [key |-> k, value |-> v]

\* What a piece of code comes to: a value, an exception raised, or a
\* response returned from main.
Value(v) == [how |-> "value", error |-> "", value |-> v]
Raised(e) == [how |-> "raised", error |-> e, value |-> None]
Returned(e) == [how |-> "returned", error |-> e, value |-> None]

\* bool(v)
truthy(v) ==
    IF v.kind = "none" THEN FALSE
    ELSE IF v.kind = "int" THEN v.text # <<"0">>
    ELSE IF v.kind \in {"list", "dict"} THEN v.items # <<>>
    ELSE IF v.kind = "badbytes" THEN TRUE
    ELSE v.text # <<>>

\* key in d, d.get(key, default) and d[key] for a dict d.
has_key(d, key) == \E i \in 1..Len(d.items) : d.items[i].key = key
get(d, key, default) ==
    IF has_key(d, key)
    THEN d.items[CHOOSE i \in 1..Len(d.items) : d.items[i].key = key].value
    ELSE default

\* json.loads of a text whose symbols are the tokens of JSON and the
\* symbols of the strings in it: null, a number, a string (with no escape
\* in it, and no control character), a list of at most one string, an
\* object of at most one member; any other text raises JSONDecodeError.
Numbers == {"0", "5"}

is_json_string(t) ==
    /\ Len(t) >= 2
    /\ t[1] = "\""
    /\ t[Len(t)] = "\""
    /\ \A i \in 2..(Len(t) - 1) : t[i] \notin {"\"", "\n", "\t"}

string_value(t) == PyStr(SubSeq(t, 2, Len(t) - 1))

is_json_scalar(t) ==
    \/ t = <<"null">>
    \/ Len(t) = 1 /\ t[1] \in Numbers
    \/ is_json_string(t)

scalar_value(t) ==
    IF t = <<"null">> THEN None
    ELSE IF Len(t) = 1 THEN PyInt(t[1])
    ELSE string_value(t)

\* An object of one member, whose name is one symbol.
is_json_member(t) ==
    /\ Len(t) >= 7
    /\ t[1] = "{"
    /\ is_json_string(SubSeq(t, 2, 4))
    /\ t[5] = ":"
    /\ t[Len(t)] = "}"
    /\ is_json_scalar(SubSeq(t, 6, Len(t) - 1))

member(t) == PyDict(<<Pair(t[3], scalar_value(SubSeq(t, 6, Len(t) - 1)))>>)

json_loads(t) ==
    IF is_json_scalar(t) THEN Value(scalar_value(t))
    ELSE IF t = <<"[", "]">> THEN Value(PyList(<<>>))
    ELSE IF Len(t) > 2 /\ t[1] = "[" /\ t[Len(t)] = "]"
            /\ is_json_string(SubSeq(t, 2, Len(t) - 1))
    THEN Value(PyList(<<string_value(SubSeq(t, 2, Len(t) - 1))>>))
    ELSE IF t = <<"{", "}">> THEN Value(PyDict(<<>>))
    ELSE IF is_json_member(t) THEN Value(member(t))
    ELSE Raised("JSONDecodeError")

\* headers.get('content-type', '').lower(), on the symbols of a content type.
lower_symbol(c) == IF c = "Text/HTML" THEN "text/html" ELSE c
lower(t) == [i \in 1..Len(t) |-> lower_symbol(t[i])]

lowered(v) ==
    IF v.kind = "str" THEN Value(PyStr(lower(v.text)))
    ELSE Raised("AttributeError")

headers_content_type(headers) ==
    IF headers.kind = "dict"
    THEN lowered(get(headers, "content-type", PyStr(<<>>)))
    ELSE Raised("AttributeError")

\* Check if we have HTTP headers and content type.
content_type_of(a) ==
    IF a.kind = "dict" /\ has_key(a, "__ow_headers")
    THEN headers_content_type(get(a, "__ow_headers", PyDict(<<>>)))
    ELSE Value(None)

\* Raw body from HTTP request.
raw_body_html(raw_body) ==
    IF raw_body.kind = "str" /\ Strip(raw_body.text) # <<>> THEN Value(raw_body)
    ELSE IF raw_body.kind = "bytes" THEN Value(PyStr(raw_body.text))
    ELSE IF raw_body.kind = "badbytes" THEN Raised("UnicodeDecodeError")
    ELSE Value(None)

\* Priority 1: text/html content type with direct HTML string.
direct_html(a, content_type) ==
    IF truthy(content_type) /\ "text/html" \in Range(content_type.text)
    THEN (IF a.kind = "dict" /\ has_key(a, "__ow_body")
          THEN raw_body_html(get(a, "__ow_body", PyStr(<<>>)))
          ELSE IF a.kind = "str" THEN Value(a)
          ELSE Value(None))
    ELSE Value(None)

priority1(a, content_type) ==
    IF content_type.how = "raised" THEN content_type
    ELSE direct_html(a, content_type.value)

\* 'html' in data, and data['html'].
html_in(data) ==
    IF data.kind = "dict" THEN has_key(data, "html")
    ELSE IF data.kind = "list"
    THEN \E i \in 1..Len(data.items) : data.items[i] = PyStr(<<"html">>)
    ELSE "html" \in Range(data.text)

html_of_data(data) ==
    IF data.kind \notin {"dict", "list", "str"} THEN Raised("TypeError")
    ELSE IF ~html_in(data) THEN Returned("Missing HTML content")
    ELSE IF data.kind = "dict" THEN Value(get(data, "html", None))
    ELSE Raised("TypeError")

\* String input - assume it's JSON; only JSONDecodeError is caught.
html_of_json(loaded) ==
    IF loaded.how = "raised" THEN Returned("Invalid JSON input")
    ELSE html_of_data(loaded.value)

\* Priority 2: fallback to JSON parsing if no HTML content found yet.
priority2(a) ==
    IF a.kind = "dict"
    THEN (IF has_key(a, "html") THEN Value(get(a, "html", None))
          ELSE Returned("Missing HTML content"))
    ELSE html_of_json(IF a.kind = "str" THEN json_loads(a.text) ELSE Value(a))

\* The symbols that open a tag; a tag runs to the next '>'.
TagSymbols ==
    {"<title", "</title", "<head", "</head", "<div", "</div", "<p", "</p"}

\* soup.title.string: the text of the first <title> element, None when
\* there is no title, when it is empty, or when it holds more than a text.
title_text(rest, close) ==
    IF close = 0 THEN rest ELSE SubSeq(rest, 1, close - 1)

string_of(t) ==
    IF t = <<>> \/ Range(t) \cap TagSymbols # {} THEN None ELSE PyStr(t)

title_from(doc, open) ==
    IF open = 0 THEN None
    ELSE string_of(title_text(SubSeq(doc, open + 2, Len(doc)),
                              re_search(Literal(<<"</title">>),
                                        SubSeq(doc, open + 2, Len(doc)))))

title_string(doc) == title_from(doc, re_search(Literal(<<"<title", ">">>), doc))

\* convert_soup, the library's conversion, by the text it keeps: the
\* symbols outside the tags.
RECURSIVE text_outside_tags(_, _)
text_outside_tags(doc, in_tag) ==
    IF doc = <<>> THEN <<>>
    ELSE IF in_tag THEN text_outside_tags(Tail(doc), Head(doc) # ">")
    ELSE IF Head(doc) \in TagSymbols THEN text_outside_tags(Tail(doc), TRUE)
    ELSE <<Head(doc)>> \o text_outside_tags(Tail(doc), FALSE)

convert_soup(doc) == text_outside_tags(doc, FALSE)

\* DocumentConverterResult(markdown, title)
DocumentConverterResult(markdown, title) == Py("result", markdown, <<title>>)

\* convert_stream sanitizes what it reads, parses it, converts it and
\* takes the title of the parsed document.
converted(doc) ==
    DocumentConverterResult(Strip(convert_soup(doc)), title_string(doc))

convert_stream(file_stream) == converted(_preprocess_html(file_stream))

\* convert_string sanitizes the text and has convert_stream convert it; a
\* value that is no str makes re.search raise.
convert_string(v) ==
    IF v.kind = "str" THEN Value(convert_stream(_preprocess_html(v.text)))
    ELSE Raised("TypeError")

\* "\n".join(line.rstrip() for line in re.split(r"\r?\n", markdown))
rstrip_lines(lines) == [i \in 1..Len(lines) |-> RStrip(lines[i])]

\* re.sub(r"\n{3,}", "\n\n", s)
RECURSIVE lstrip_chars(_, _)
lstrip_chars(s, c) == IF startswith(s, c) THEN lstrip_chars(Tail(s), c) ELSE s

RECURSIVE collapse_newlines(_)
newlines_then(n, rest) ==
    (IF n >= 3 THEN <<"\n", "\n">> ELSE Repeat("\n", n))
    \o collapse_newlines(rest)

collapse_newlines(t) ==
    IF t = <<>> THEN <<>>
    ELSE IF Head(t) = "\n"
    THEN newlines_then(Len(t) - Len(lstrip_chars(t, "\n")),
                       lstrip_chars(t, "\n"))
    ELSE <<Head(t)>> \o collapse_newlines(Tail(t))

\* Normalize the content, then fix broken markdown tables.
normalized(markdown) ==
    collapse_newlines(Join(<<"\n">>, rstrip_lines(split(markdown, "\n"))))

body_of_markdown(markdown) == _fix_markdown_tables(normalized(markdown))

\* Sanitize title for filename: re.sub(r'[^\w\s-]', '', title.strip()),
\* then re.sub(r'[-\s]+', '-', safe_title).
WordSymbols == {"My", "Page", "x", "a", "b"}
IsHyphen(c) == c \in {"-", "---"}

kept_in_filename(t) ==
    SelectSeq(t, LAMBDA c : c \in WordSymbols \/ IsSpace(c) \/ IsHyphen(c))

RECURSIVE lstrip_separators(_)
lstrip_separators(t) ==
    IF t # <<>> /\ (IsSpace(Head(t)) \/ IsHyphen(Head(t)))
    THEN lstrip_separators(Tail(t)) ELSE t

RECURSIVE hyphenated(_)
hyphenated(t) ==
    IF t = <<>> THEN <<>>
    ELSE IF IsSpace(Head(t)) \/ IsHyphen(Head(t))
    THEN <<"-">> \o hyphenated(lstrip_separators(t))
    ELSE <<Head(t)>> \o hyphenated(Tail(t))

safe_title(title) == hyphenated(kept_in_filename(Strip(title)))

named(safe) == IF safe = <<>> THEN <<"converted.md">> ELSE safe \o <<".md">>

\* Generate filename from title or use default.
filename_of(title) ==
    IF truthy(title) THEN named(safe_title(title.text)) ELSE <<"converted.md">>

\* The responses of main.
Response(statusCode, filename, body, error) ==
    [statusCode |-> statusCode, filename |-> filename, body |-> body,
     error |-> error]
BadRequest(error) == Response(400, <<>>, <<>>, error)
ServerError(error) == Response(500, <<>>, <<>>, error)
Converted(res) ==
    Response(200, filename_of(res.items[1]), body_of_markdown(res.text),
             "")

\* The documents main is given: a title and text; a head with a title and
\* then the content division; the content division with a title in it; no
\* title; a title of punctuation; an empty title; text with blank lines;
\* white space; nothing.
TitleElement ==
    <<"<title", ">", " ", "My", " ", "-", " ", "Page", "!", "</title", ">">>
ContentOpen == <<"<div", " ", "id=", "\"", "content", "\"", ">">>

Documents ==
    { TitleElement \o <<"<p", ">", "x", "</p", ">">>,
      <<"<head", ">">> \o TitleElement \o <<"</head", ">">> \o ContentOpen
          \o <<"x", "</div", ">">>,
      ContentOpen \o TitleElement \o <<"x", "</div", ">">>,
      <<"<p", ">", "x", "</p", ">">>,
      <<"<title", ">", "!", "</title", ">", "x">>,
      <<"<title", ">", "</title", ">", "x">>,
      <<"x", " ", "\n", "\n", "\n", "|", " ", "a", " ", "|", "\n", "b", " ",
        "|">>,
      <<" ">>,
      <<>> }

\* The same documents as JSON strings: those that hold no '"'.
JsonString(t) == <<"\"">> \o t \o <<"\"">>
JsonDocuments == { JsonString(d) : d \in { e \in Documents : "\"" \notin Range(e) } }

\* The texts main is given as a str.
JsonTexts ==
    { <<"{">> \o JsonString(<<"html">>) \o <<":">> \o d \o <<"}">> :
        d \in JsonDocuments \cup {<<"5">>, <<"null">>} }
    \cup { <<"{">> \o JsonString(<<"text">>) \o <<":">> \o d \o <<"}">> :
             d \in JsonDocuments }
    \cup { <<"{", "}">>, <<"[", "]">>, <<"5">>, <<"null">>,
           JsonString(<<"html">>), JsonString(<<"x">>),
           <<"[">> \o JsonString(<<"html">>) \o <<"]">>,
           <<"{">>, <<>>, <<"<p", ">", "x", "</p", ">">> }

\* The values of an 'html' member and of a raw body.
HtmlValues ==
    { PyStr(d) : d \in Documents } \cup { None, PyInt("5"), PyInt("0"), PyList(<<>>) }
BodyValues ==
    { PyStr(d) : d \in Documents }
    \cup { PyBytes(d) : d \in Documents } \cup { BadBytes, None }

\* The headers of a request.
Headers(content_type) == PyDict(<<Pair("content-type", content_type)>>)
HeaderValues ==
    { Headers(PyStr(t)) :
        t \in { <<"text/html">>, <<"Text/HTML", ";", " ", "charset=utf-8">>,
                <<"application/json">> } }
    \cup { Headers(None), PyDict(<<>>), None }

\* The arguments of main: a dict with an 'html' member or without one, a
\* dict of an HTTP request (headers, with a raw body, an 'html' member or
\* neither), a str, None and a number.
Arguments ==
    { PyDict(<<Pair("html", v)>>) : v \in HtmlValues }
    \cup { PyDict(<<>>), PyDict(<<Pair("text", PyStr(<<"x">>))>>) }
    \cup { PyDict(<<Pair("__ow_headers", h), Pair("__ow_body", b)>>) :
             h \in HeaderValues, b \in BodyValues }
    \cup { PyDict(<<Pair("__ow_headers", h), Pair("html", v)>>) :
             h \in HeaderValues, v \in HtmlValues }
    \cup { PyDict(<<Pair("__ow_headers", h), Pair("__ow_body", PyStr(<<" ">>)),
                   Pair("html", PyStr(TitleElement))>>) : h \in HeaderValues }
    \cup { PyDict(<<Pair("__ow_headers", h)>>) : h \in HeaderValues }
    \cup { PyStr(t) : t \in JsonTexts }
    \cup { None, PyInt("5") }

\* What main leaves as it was when it returns.
Return(resp) ==
    /\ response' = resp
    /\ main_pc' = "done"

\* except Exception as e: statusCode 500.
Except(e) == Return(ServerError(e))

\* main(args)
Call(a) ==
    /\ main_pc = "idle"
    /\ args' = a
    /\ main_pc' = "priority1"
    /\ UNCHANGED <<html, conversion, response, tvars, rvars, svars>>

\* The content type is read and, for text/html, the raw body taken.
Extracted(outcome, next_pc) ==
    IF outcome.how = "raised"
    THEN Except(outcome.error) /\ html' = html
    ELSE IF outcome.how = "returned"
    THEN Return(BadRequest(outcome.error)) /\ html' = html
    ELSE /\ html' = outcome.value
         /\ main_pc' = next_pc
         /\ response' = response

Priority1 ==
    /\ main_pc = "priority1"
    /\ Extracted(priority1(args, content_type_of(args)), "priority2")
    /\ UNCHANGED <<args, conversion, tvars, rvars, svars>>

\* No HTML content yet: the 'html' member of args, or of the JSON text.
Priority2 ==
    /\ main_pc = "priority2"
    /\ IF truthy(html)
       THEN /\ main_pc' = "check"
            /\ UNCHANGED <<html, response>>
       ELSE Extracted(priority2(args), "check")
    /\ UNCHANGED <<args, conversion, tvars, rvars, svars>>

\* if not html_content: 'HTML content is empty'.
CheckEmpty ==
    /\ main_pc = "check"
    /\ IF truthy(html)
       THEN /\ main_pc' = "convert"
            /\ response' = response
       ELSE Return(BadRequest("HTML content is empty"))
    /\ UNCHANGED <<args, html, conversion, tvars, rvars, svars>>

\* result = converter.convert_string(html_content)
Convert ==
    /\ main_pc = "convert"
    /\ IF convert_string(html).how = "raised"
       THEN Except(convert_string(html).error) /\ conversion' = conversion
       ELSE /\ conversion' = convert_string(html).value
            /\ main_pc' = "respond"
            /\ response' = response
    /\ UNCHANGED <<args, html, tvars, rvars, svars>>

\* The Markdown is normalized and repaired, the filename generated, and
\* statusCode 200 returned.
Respond ==
    /\ main_pc = "respond"
    /\ Return(Converted(conversion))
    /\ UNCHANGED <<args, html, conversion, tvars, rvars, svars>>

InitMain == TInit /\ RIdle /\ SIdle /\ MIdle
NextMain ==
    \/ \E a \in Arguments : Call(a)
    \/ Priority1
    \/ Priority2
    \/ CheckEmpty
    \/ Convert
    \/ Respond
SpecMain == InitMain /\ [][NextMain]_vars

-----------------------------------------------------------------------------
(* Claims about main.                                                      *)

\* The request is a text that is no JSON.
MalformedJson == args.kind = "str" /\ json_loads(args.text).how = "raised"

\* The value the request gives as its 'html' member: of the dict, or of the
\* object the text is the JSON of.
HtmlMember(a) ==
    IF a.kind = "dict" /\ has_key(a, "html") THEN <<get(a, "html", None)>>
    ELSE IF a.kind = "str" /\ json_loads(a.text).how = "value"
            /\ json_loads(a.text).value.kind = "dict"
            /\ has_key(json_loads(a.text).value, "html")
    THEN <<get(json_loads(a.text).value, "html", None)>>
    ELSE <<>>

\* The request has a raw body (other than None) and headers.
RawBody(a) ==
    IF a.kind = "dict" /\ has_key(a, "__ow_headers") /\ has_key(a, "__ow_body")
       /\ get(a, "__ow_body", None) # None
    THEN <<get(a, "__ow_body", None)>>
    ELSE <<>>

\* The request holds no HTML content: no 'html' member and no raw body.
MissingHtml == ~MalformedJson /\ HtmlMember(args) = <<>> /\ RawBody(args) = <<>>

\* The request's only HTML content is an 'html' member that is empty.
EmptyHtml ==
    /\ RawBody(args) = <<>>
    /\ HtmlMember(args) # <<>>
    /\ HtmlMember(args)[1] \in {PyStr(<<>>), None}

(* C9: main always returns a response with statusCode 200, 400 or 500:    *)
(* 400 whenever the HTML content is missing or empty or the input is       *)
(* malformed JSON, and 200 only when a non-empty HTML content was obtained *)
(* and converted.                                                          *)
C9_StatusCodes ==
    main_pc = "done" =>
        /\ response.statusCode \in {200, 400, 500}
        /\ (MissingHtml \/ EmptyHtml \/ MalformedJson) =>
               response.statusCode = 400
        /\ response.statusCode = 200 =>
               /\ html.kind = "str"
               /\ html.text # <<>>
               /\ conversion = convert_string(html).value

(* C10: on a successful conversion by main, the filename is the title of   *)
(* the input document with the non-word characters stripped and each run   *)
(* of white space and hyphens collapsed to one hyphen, followed by `.md`;  *)
(* it is `converted.md` only when the document has no title or the title   *)
(* sanitizes to nothing.                                                   *)
C10_FilenameFromTitle ==
    (main_pc = "done" /\ response.statusCode = 200) =>
        response.filename = filename_of(title_string(html.text))

====
